---- MODULE Spec2Model ----
(***************************************************************************)
(* Model of BatchAnalyzer.py: the Report writer, the config parser         *)
(* ReadConf, the table reader ReadTable and the text dump SaveData.        *)
(*                                                                         *)
(* Text is a sequence of one-character strings; a file is the text it      *)
(* holds.  A Python exception that leaves a call is the value Raised or a  *)
(* raised flag of the object the call works on.                            *)
(***************************************************************************)
EXTENDS Integers, Sequences, FiniteSets, TLC

VARIABLES
    rpc,      \* Report: "new" before the constructor ran, "live" after it
              \*         returned, "failed" when it raised
    rep,      \* Report: the object's fields, its file and its handle
    last,     \* Report: the last call made, <<operation, args, withtime>>
    nops,     \* Report: number of write and close calls made so far
    cin,      \* ReadConf: the arguments of the call and the file they name
    cout,     \* ReadConf: "idle" before the call, then what the call gave
    fs,       \* tables: the text files by name, each the text it holds
    tsave,    \* tables: the SaveData call made, if any, with its arguments
    tread,    \* tables: the ReadTable call made, if any, with its arguments
    tout      \* tables: what the ReadTable call gave

vars == <<rpc, rep, last, nops, cin, cout, fs, tsave, tread, tout>>

\* ---------------------------------------------------------------- bounds
MaxOps == 3
MaxLines == 2
MaxRows == 2

\* ------------------------------------------------------------------ text
NL == "\n"
SP == " "
TAB == "\t"
DQ == "\""

RECURSIVE Join(_, _)
\* sep.join(parts), parts a sequence of texts
Join(parts, sep) ==
    IF Len(parts) = 0 THEN <<>>
    ELSE IF Len(parts) = 1 THEN parts[1]
    ELSE parts[1] \o sep \o Join(Tail(parts), sep)

RECURSIVE Count(_, _)
\* s.count(ch)
Count(s, ch) ==
    IF Len(s) = 0 THEN 0
    ELSE (IF s[1] = ch THEN 1 ELSE 0) + Count(Tail(s), ch)

\* str.strip() and friends take off these characters
IsSpace(c) == c \in {SP, TAB, NL, "\r"}

RECURSIVE LStrip(_)
LStrip(s) == IF Len(s) > 0 /\ IsSpace(s[1]) THEN LStrip(Tail(s)) ELSE s

RECURSIVE RStrip(_)
RStrip(s) ==
    IF Len(s) > 0 /\ IsSpace(s[Len(s)]) THEN RStrip(SubSeq(s, 1, Len(s) - 1))
    ELSE s

Strip(s) == RStrip(LStrip(s))

\* ch in s
Has(s, ch) == \E k \in 1..Len(s) : s[k] = ch

\* index of the first ch in s, Len(s) + 1 when there is none
First(s, ch) ==
    IF Has(s, ch) THEN CHOOSE k \in 1..Len(s) :
                           s[k] = ch /\ \A j \in 1..(k - 1) : s[j] # ch
    ELSE Len(s) + 1

\* s.split(ch, 1)[0] and s.split(ch, 1)[1]
Before(s, ch) == SubSeq(s, 1, First(s, ch) - 1)
After(s, ch) == SubSeq(s, First(s, ch) + 1, Len(s))

\* str.lower() on the letters the inputs use
LowerCh(c) ==
    CASE c = "T" -> "t" [] c = "R" -> "r" [] c = "U" -> "u" [] c = "E" -> "e"
      [] c = "F" -> "f" [] c = "A" -> "a" [] c = "L" -> "l" [] c = "S" -> "s"
      [] OTHER -> c
Lower(s) == [k \in 1..Len(s) |-> LowerCh(s[k])]

\* ------------------------------------------------------- Python values
\* int, float, bool, str and list values.  A float is sign, digits m and
\* the number e of those digits that stand right of the point, without
\* trailing zeros right of the point: 1.5 is m = 15, e = 1.
IntV(n) == [t |-> "int", n |-> n]
FloatV(neg, m, e) == [t |-> "float", neg |-> neg, m |-> m, e |-> e]
BoolV(b) == [t |-> "bool", b |-> b]
StrV(s) == [t |-> "str", s |-> s]
ListV(v) == [t |-> "list", v |-> v]

Digits == {"0", "1", "2", "3", "4", "5", "6", "7", "8", "9"}
DigitVal(c) ==
    CASE c = "0" -> 0 [] c = "1" -> 1 [] c = "2" -> 2 [] c = "3" -> 3
      [] c = "4" -> 4 [] c = "5" -> 5 [] c = "6" -> 6 [] c = "7" -> 7
      [] c = "8" -> 8 [] c = "9" -> 9
DigitCh(n) == <<"0", "1", "2", "3", "4", "5", "6", "7", "8", "9">>[n + 1]

RECURSIVE NatOf(_)
\* the number a run of digits writes, 0 for the empty run
NatOf(s) ==
    IF Len(s) = 0 THEN 0
    ELSE 10 * NatOf(SubSeq(s, 1, Len(s) - 1)) + DigitVal(s[Len(s)])

RECURSIVE NatStr(_)
NatStr(n) == IF n < 10 THEN <<DigitCh(n)>> ELSE NatStr(n \div 10) \o <<DigitCh(n % 10)>>

RECURSIVE Pow10(_)
Pow10(e) == IF e = 0 THEN 1 ELSE 10 * Pow10(e - 1)

RECURSIVE Normal(_, _, _)
Normal(neg, m, e) ==
    IF e > 0 /\ m % 10 = 0 THEN Normal(neg, m \div 10, e - 1)
    ELSE FloatV(neg, m, e)

\* whether float(s) succeeds.  The inputs hold signs, digits and a point:
\* exponents, inf, nan and underscores are not among their characters.
IsFloatText(s) ==
    LET u == Strip(s)
        b == IF Len(u) > 0 /\ u[1] \in {"+", "-"} THEN Tail(u) ELSE u
    IN  /\ \A k \in 1..Len(b) : b[k] \in Digits \cup {"."}
        /\ \E k \in 1..Len(b) : b[k] \in Digits
        /\ Count(b, ".") <= 1

\* float(s) for a text with IsFloatText(s)
ParseFloat(s) ==
    LET u == Strip(s)
        neg == Len(u) > 0 /\ u[1] = "-"
        b == IF Len(u) > 0 /\ u[1] \in {"+", "-"} THEN Tail(u) ELSE u
        ip == Before(b, ".")
        fp == After(b, ".")
    IN  Normal(neg, NatOf(ip \o fp), Len(fp))

RECURSIVE Pad(_, _)
Pad(s, n) == IF Len(s) >= n THEN s ELSE Pad(<<"0">> \o s, n)

\* str(x) of a float (of a size Python writes without an exponent)
FloatStr(f) ==
    (IF f.neg THEN <<"-">> ELSE <<>>)
    \o NatStr(f.m \div Pow10(f.e)) \o <<".">>
    \o (IF f.e = 0 THEN <<"0">> ELSE Pad(NatStr(f.m % Pow10(f.e)), f.e))

\* str(x)
Str(x) ==
    CASE x.t = "int" -> (IF x.n < 0 THEN <<"-">> \o NatStr(-x.n) ELSE NatStr(x.n))
      [] x.t = "float" -> FloatStr(x)
      [] x.t = "bool" -> (IF x.b THEN <<"T", "r", "u", "e">> ELSE <<"F", "a", "l", "s", "e">>)
      [] x.t = "str" -> x.s

\* ================================================================ Report
\* ctime() ':' : the clock's text is one symbol
TimeTxt == <<"T", ":">>

\* pathname values: a list of path components; <<>> is the empty string
PathNames == { <<".">>, <<"out">>, <<>>, <<"nodir">>, <<"afile">> }
ExistingDirs == { <<".">>, <<"out">> }
Headers == { <<>>, <<"H">> }
PriorContents == { <<>>, <<"p", NL>> }
WriteArgs == { <<>>, << <<"x">> >>, << <<"x">>, <<"y">> >> }

\* os.path.isdir(pathname)
IsDir(p) == p \in ExistingDirs

\* the directory in which open(os.path.join(pathname, filename), "at") makes
\* the file, "none" when the open raises (no such directory, or not one)
OpenDir(p) ==
    IF p = <<>> \/ p = <<".">> THEN "cwd"
    ELSE IF p \in ExistingDirs THEN "out"
    ELSE "none"

\* fp.write(s): the text goes to the handle's buffer
FpWrite(r, s) == [r EXCEPT !.buf = @ \o s, !.handed = @ \o s]

\* fp.flush(): the buffer goes to the file
FpFlush(r) == [r EXCEPT !.file = @ \o r.buf, !.buf = <<>>]

\* fp.close(): flushes and releases the handle
FpClose(r) == [FpFlush(r) EXCEPT !.fp = "closed"]

\* Report.write that leaves its text in the buffer: the flush forgotten
WriteBodyNoFlush(r, args, withtime) ==
    LET a2  == IF r.add_time \/ withtime THEN << <<>>, TimeTxt >> \o args
               ELSE args
    IN  FpWrite(FpWrite(r, Join(a2, <<SP>>)), <<NL>>)

\* Report.write from the timestamp on (the handle is open)
WriteBody(r, args, withtime) ==
    LET a2  == IF r.add_time \/ withtime THEN << <<>>, TimeTxt >> \o args
               ELSE args
        res == Join(a2, <<SP>>)
    IN  FpFlush(FpWrite(FpWrite(r, res), <<NL>>))

\* Report.open that writes its blank lines but not the header
ReportOpenNoHeader(r) ==
    LET r1 == [r EXCEPT !.warned = @ \/ ~IsDir(r.pathname)]
    IN  IF OpenDir(r.pathname) = "none"
        THEN [r1 EXCEPT !.raised = TRUE]
        ELSE FpWrite([r1 EXCEPT !.fp = "open", !.dir = OpenDir(r.pathname)],
                     <<NL, NL>>)

\* Report.open
ReportOpen(r) ==
    LET r1 == [r EXCEPT !.warned = @ \/ ~IsDir(r.pathname)]
    IN  IF OpenDir(r.pathname) = "none"
        THEN [r1 EXCEPT !.raised = TRUE]
        ELSE LET r2 == [r1 EXCEPT !.fp = "open", !.dir = OpenDir(r.pathname)]
                 r3 == IF Len(r.header) > 0
                       THEN WriteBody(r2, <<r.header>>, TRUE)
                       ELSE r2
             IN  FpWrite(r3, <<NL, NL>>)

\* Report.write
ReportWrite(r, args, withtime) ==
    LET r0 == [r EXCEPT !.raised = FALSE]
        r1 == IF r0.fp = "none" \/ r0.fp = "closed" THEN ReportOpen(r0) ELSE r0
    IN  IF r1.raised THEN r1 ELSE WriteBody(r1, args, withtime)

\* Report.close: writing to a closed handle raises ValueError
ReportClose(r) ==
    IF r.fp = "open"
    THEN FpClose(FpWrite([r EXCEPT !.raised = FALSE], <<NL, NL>>))
    ELSE [r EXCEPT !.raised = TRUE]

\* Report.__init__
ReportInit(pathname, header, add_time, prior) ==
    ReportOpen([header |-> header, fp |-> "none", add_time |-> add_time,
                pathname |-> pathname, dir |-> "none",
                file |-> prior, prior |-> prior, buf |-> <<>>,
                handed |-> <<>>, warned |-> FALSE, raised |-> FALSE])

NoReport == [header |-> <<>>, fp |-> "none", add_time |-> FALSE,
             pathname |-> <<>>, dir |-> "none", file |-> <<>>,
             prior |-> <<>>, buf |-> <<>>, handed |-> <<>>,
             warned |-> FALSE, raised |-> FALSE]

ReportIdle ==
    /\ rpc = "new"
    /\ rep = NoReport
    /\ last = <<"none", <<>>, FALSE>>
    /\ nops = 0

Construct ==
    /\ rpc = "new"
    /\ \E p \in PathNames, h \in Headers, t \in BOOLEAN, c \in PriorContents :
          /\ rep' = ReportInit(p, h, t, c)
          /\ rpc' = IF rep'.raised THEN "failed" ELSE "live"
    /\ last' = <<"init", <<>>, FALSE>>
    /\ nops' = nops

Write ==
    /\ rpc = "live"
    /\ nops < MaxOps
    /\ \E a \in WriteArgs, w \in BOOLEAN :
          /\ rep' = ReportWrite(rep, a, w)
          /\ last' = <<"write", a, w>>
    /\ nops' = nops + 1
    /\ rpc' = rpc

Close ==
    /\ rpc = "live"
    /\ nops < MaxOps
    /\ rep' = ReportClose(rep)
    /\ last' = <<"close", <<>>, FALSE>>
    /\ nops' = nops + 1
    /\ rpc' = rpc

\* ============================================================== ReadConf
\* a dict is a function from its keys; the empty dict
EmptyDict == <<>>
Put(d, k, v) == [x \in (DOMAIN d) \cup {k} |-> IF x = k THEN v ELSE d[x]]

RECURSIVE ReadLines(_)
\* fp.readlines(): the lines of a text, each with its line end
ReadLines(text) ==
    IF Len(text) = 0 THEN <<>>
    ELSE IF Has(text, NL)
         THEN <<SubSeq(text, 1, First(text, NL))>> \o ReadLines(After(text, NL))
         ELSE <<text>>

\* the line stripped, then cut at its first '#'
ConfText(line) ==
    LET i == Strip(line) IN IF Has(i, "#") THEN Before(i, "#") ELSE i

\* the key of a line with '='
ConfKey(i) == RStrip(Before(i, "="))

\* the value text of a line with '=': what stands between the first two
\* double quotes, or the stripped right side
ConfValText(i) ==
    LET raw == After(i, "=")
    IN  IF Has(raw, DQ) THEN Before(After(raw, DQ), DQ) ELSE Strip(raw)

\* bool, float or the text itself
Coerce(val) ==
    IF Lower(val) = <<"f", "a", "l", "s", "e">> THEN BoolV(FALSE)
    ELSE IF Lower(val) = <<"t", "r", "u", "e">> THEN BoolV(TRUE)
    ELSE IF IsFloatText(val) THEN ParseFloat(val)
    ELSE StrV(val)

\* the value a bare line gives its key
BareValue == ListV(<<IntV(1)>>)

\* one turn of the loop over the lines
ConfStep(res, line) ==
    LET i == ConfText(line)
    IN  IF Has(i, "=")
        THEN LET key == ConfKey(i)
                 val == Coerce(ConfValText(i))
             IN  IF key \in DOMAIN res
                 THEN Put(res, key, ListV(Append(res[key].v, val)))
                 ELSE IF Len(key) > 0 THEN Put(res, key, ListV(<<val>>))
                 ELSE res
        ELSE IF Len(i) > 0 THEN Put(res, i, BareValue) ELSE res

RECURSIVE ConfLoop(_, _)
ConfLoop(res, lines) ==
    IF Len(lines) = 0 THEN res
    ELSE ConfLoop(ConfStep(res, lines[1]), Tail(lines))

\* the defaults of the keys the file did not set
MergeDefault(res, default) ==
    [k \in (DOMAIN res) \cup (DOMAIN default) |->
        IF k \in DOMAIN res THEN res[k]
        ELSE IF default[k].t # "list" THEN ListV(<<default[k]>>)
        ELSE default[k]]

\* simplify: v[0] of the one-element lists, or v[-1] of every list, which
\* raises IndexError on an empty list
Simplify(res, strict) ==
    IF strict
    THEN [raised |-> FALSE,
          val |-> [k \in DOMAIN res |->
                      IF Len(res[k].v) = 1 THEN res[k].v[1] ELSE res[k]]]
    ELSE IF \E k \in DOMAIN res : Len(res[k].v) = 0
         THEN [raised |-> TRUE, val |-> EmptyDict]
         ELSE [raised |-> FALSE,
               val |-> [k \in DOMAIN res |-> res[k].v[Len(res[k].v)]]]

\* ReadConf(filename, default, simplify, strict, verbose); verbose sorts
\* res.keys(), which has no sort: AttributeError
ReadConf(exists, text, default, simplify, strict, verbose) ==
    LET res0 == IF exists THEN ConfLoop(EmptyDict, ReadLines(text)) ELSE EmptyDict
        res1 == MergeDefault(res0, default)
        res2 == IF simplify THEN Simplify(res1, strict)
                ELSE [raised |-> FALSE, val |-> res1]
    IN  IF res2.raised \/ ~verbose THEN res2
        ELSE [raised |-> TRUE, val |-> EmptyDict]

\* ----------------------------------------------------- ReadConf: inputs
ConfLineSet ==
    { <<"a", SP, "=", SP, "5", NL>>,
      <<"a", NL>>,
      <<"a", SP, SP, "#", SP, "c", NL>>,
      <<"=", SP, "5", NL>>,
      <<"b", SP, "=", SP, DQ, "x", SP, "y", DQ, SP, "z", NL>>,
      <<"a", SP, "=", SP, "T", "r", "u", "e", NL>>,
      <<"#", SP, "c", NL>>,
      <<SP, "b", "=", "x", NL>> }

RECURSIVE Texts(_, _)
\* the texts of at most n lines of the set
Texts(lineset, n) ==
    IF n = 0 THEN {<<>>}
    ELSE LET shorter == Texts(lineset, n - 1)
         IN  shorter \cup {l \o t : l \in lineset, t \in shorter}

ConfDefaults ==
    { EmptyDict,
      (<<"a">> :> IntV(7)),
      (<<"k">> :> ListV(<<>>)),
      (<<"a">> :> ListV(<<IntV(1), IntV(2)>>)) @@ (<<"b">> :> StrV(<<"s">>)) }

ConfIdle == [done |-> FALSE, raised |-> FALSE, val |-> EmptyDict]

ConfOff == [exists |-> FALSE, text |-> <<>>, default |-> EmptyDict,
            simplify |-> FALSE, strict |-> FALSE, verbose |-> FALSE]

ConfInputs ==
    \E e \in BOOLEAN, d \in ConfDefaults, s \in BOOLEAN, st \in BOOLEAN, v \in BOOLEAN :
         \E t \in (IF e THEN Texts(ConfLineSet, MaxLines) ELSE {<<>>}) :
            cin = [exists |-> e, text |-> t, default |-> d,
                   simplify |-> s, strict |-> st, verbose |-> v]

ReadConfCall ==
    /\ ~cout.done
    /\ cout' = [done |-> TRUE] @@
               ReadConf(cin.exists, cin.text, cin.default,
                        cin.simplify, cin.strict, cin.verbose)
    /\ UNCHANGED cin


\* ============================================================= ReadTable
\* whether sep stands in t at index k
SepAt(t, sep, k) ==
    k + Len(sep) - 1 <= Len(t) /\ SubSeq(t, k, k + Len(sep) - 1) = sep

RECURSIVE Split(_, _)
\* t.split(sep) with a non-empty sep
Split(t, sep) ==
    IF \E k \in 1..Len(t) : SepAt(t, sep, k)
    THEN LET k == CHOOSE k \in 1..Len(t) :
                     SepAt(t, sep, k) /\ \A j \in 1..(k - 1) : ~SepAt(t, sep, j)
         IN  <<SubSeq(t, 1, k - 1)>> \o Split(SubSeq(t, k + Len(sep), Len(t)), sep)
    ELSE <<t>>

RECURSIVE SplitWs(_)
\* t.split(): the runs of characters that are not white space
SplitWs(t) ==
    LET u == LStrip(t)
    IN  IF Len(u) = 0 THEN <<>>
        ELSE IF \E k \in 1..Len(u) : IsSpace(u[k])
             THEN LET k == CHOOSE k \in 1..Len(u) :
                              IsSpace(u[k]) /\ \A j \in 1..(k - 1) : ~IsSpace(u[j])
                  IN  <<SubSeq(u, 1, k - 1)>> \o SplitWs(SubSeq(u, k, Len(u)))
             ELSE <<u>>

\* the line stripped, then cut at its first '#'
TableText(line) ==
    LET t == Strip(line) IN IF Has(t, "#") THEN Before(t, "#") ELSE t

\* the value of one token: the fill value, a float, or the token
TableValue(i, DefaultValue) ==
    IF Len(i) = 0 THEN DefaultValue
    ELSE IF IsFloatText(i) THEN ParseFloat(i)
    ELSE StrV(i)

\* resline of a line that is not skipped
TableRow(t, sep, DefaultValue) ==
    LET ilist == IF Len(sep) > 0 THEN Split(t, sep) ELSE SplitWs(t)
    IN  [k \in 1..Len(ilist) |-> TableValue(ilist[k], DefaultValue)]

RECURSIVE TableRows(_, _, _)
\* res: the rows of the lines that hold something besides a comment
TableRows(lines, sep, DefaultValue) ==
    IF Len(lines) = 0 THEN <<>>
    ELSE LET t == TableText(lines[1])
             rest == TableRows(Tail(lines), sep, DefaultValue)
         IN  IF Len(t) = 0 THEN rest
             ELSE <<TableRow(t, sep, DefaultValue)>> \o rest

\* i[jc] succeeds: Python counts a negative index from the end
InRow(i, jc) == -Len(i) <= jc /\ jc < Len(i)
RowAt(i, jc) == IF jc >= 0 THEN i[jc + 1] ELSE i[Len(i) + jc + 1]

RECURSIVE ColumnFilled(_, _)
\* the column with a 0.0 put in for every row that has no such value
ColumnFilled(res, jc) ==
    IF Len(res) = 0 THEN <<>>
    ELSE <<IF InRow(res[1], jc) THEN RowAt(res[1], jc) ELSE FloatV(FALSE, 0, 0)>>
         \o ColumnFilled(Tail(res), jc)

RECURSIVE Column(_, _)
\* c: the values at index jc of the rows that have one, in row order
Column(res, jc) ==
    IF Len(res) = 0 THEN <<>>
    ELSE (IF InRow(res[1], jc) THEN <<RowAt(res[1], jc)>> ELSE <<>>)
         \o Column(Tail(res), jc)

\* keys as the loop uses them: cols when none is given, else the given
\* ones extended by the cols they lack
TableKeys(cols, keys) ==
    LET ck == [j \in 1..Len(cols) |-> IntV(cols[j])]
    IN  IF Len(keys) = 0 THEN ck
        ELSE IF Len(keys) < Len(cols)
             THEN keys \o SubSeq(ck, Len(keys) + 1, Len(cols))
        ELSE keys

RECURSIVE TableDict(_, _, _, _)
\* retres after the turns j..N of the loop over the columns
TableDict(retres, res, cols, keys) ==
    IF Len(cols) = 0 THEN retres
    ELSE TableDict(Put(retres, keys[1], ListV(Column(res, cols[1]))),
                   res, Tail(cols), Tail(keys))

\* ReadTable(filename, sep, cols, keys, DefaultValue): None for a missing
\* file; res[0] of no row raises IndexError when no column is asked for
ReadTable(exists, text, sep, cols, keys, DefaultValue) ==
    LET res == TableRows(ReadLines(text), sep, DefaultValue)
        cols1 == IF Len(cols) = 0 THEN [j \in 1..Len(res[1]) |-> j - 1] ELSE cols
    IN  IF ~exists
        THEN [raised |-> FALSE, none |-> TRUE, val |-> EmptyDict]
        ELSE IF Len(cols) = 0 /\ Len(res) = 0
        THEN [raised |-> TRUE, none |-> FALSE, val |-> EmptyDict]
        ELSE [raised |-> FALSE, none |-> FALSE,
              val |-> TableDict(EmptyDict, res, cols1, TableKeys(cols1, keys))]

\* ============================================================== SaveData
\* index of the last ch in s, 0 when there is none
LastIx(s, ch) ==
    IF Has(s, ch) THEN CHOOSE k \in 1..Len(s) :
                           s[k] = ch /\ \A j \in (k + 1)..Len(s) : s[j] # ch
    ELSE 0

\* os.path.splitext(p)[0]: p without its extension, which starts at the
\* last point of the last path component, the leading points aside
SplitExtRoot(p) ==
    LET sepIx == LastIx(p, "/")
        dotIx == LastIx(p, ".")
    IN  IF dotIx > sepIx /\ \E k \in (sepIx + 1)..(dotIx - 1) : p[k] # "."
        THEN SubSeq(p, 1, dotIx - 1)
        ELSE p

\* sub in s
Contains(s, sub) == \E k \in 1..(Len(s) + 1) : k + Len(sub) - 1 <= Len(s) /\ SepAt(s, sub, k)

\* the name of the file written
TableName(filename) ==
    LET fn == SplitExtRoot(filename)
    IN  IF ~Contains(fn, <<"t", "a", "b", "l", "e">>)
        THEN fn \o <<"-", "t", "a", "b", "l", "e", ".", "t", "x", "t">>
        ELSE fn \o <<".", "t", "x", "t">>

\* '\t'.join([str(i) for i in l])
TabJoin(l) == Join([k \in 1..Len(l) |-> Str(l[k])], <<TAB>>)

RECURSIVE DataLines(_)
DataLines(data) ==
    IF Len(data) = 0 THEN <<>>
    ELSE TabJoin(data[1]) \o <<NL>> \o DataLines(Tail(data))

\* the block with the header line written without its '#'
TableBlockBareHeader(header, data, remark) ==
    <<"#">> \o remark \o <<NL, "#", NL>>
    \o TabJoin(header) \o <<NL>>
    \o DataLines(data)

\* all that one call writes
TableBlock(header, data, remark) ==
    <<"#">> \o remark \o <<NL, "#", NL>>
    \o <<"#">> \o TabJoin(header) \o <<NL>>
    \o DataLines(data)

\* open(fn, 'wt') whatever append says
OpenTextTruncate(files, fn, append) == <<>>

\* open(fn, mode): 'wt' empties the file, 'at' keeps what it holds
OpenText(files, fn, append) ==
    IF append /\ fn \in DOMAIN files THEN files[fn] ELSE <<>>

\* SaveData(header, data, filename, remark, append) with report = None, in
\* a directory that exists: the files after the call
SaveData(files, header, data, filename, remark, append) ==
    LET fn == TableName(filename)
    IN  Put(files, fn, OpenText(files, fn, append) \o TableBlock(header, data, remark))

\* ------------------------------------------------------- tables: inputs
TableTexts ==
    { <<>>,
      <<"#", SP, "c", NL, NL>>,
      <<"1", SP, "2", SP, "3", NL, "4", NL, "5", SP, "6", NL>>,
      <<"a", TAB, TAB, "b", NL, "1", NL>>,
      <<"x", SP, "1", ".", "5", SP, "#", SP, "c", NL>> }
InitialName == <<"o", "u", "t", "-", "t", "a", "b", "l", "e", ".", "t", "x", "t">>
SaveNames ==
    { <<"o", "u", "t", ".", "t", "x", "t">>,
      <<"t", "a", "b", "l", "e">>,
      <<"a", ".", "t", "a", "b", "l", "e">>,
      <<"t", ".", "d", "/", "x">> }
ReadNames == { InitialName, TableName(<<"t", "a", "b", "l", "e">>), <<"n", "o", ".", "t", "x", "t">> }
RowSet ==
    { <<IntV(1), IntV(2)>>,
      <<FloatV(FALSE, 15, 1), StrV(<<"x">>)>>,
      <<StrV(<<"a", SP, "b">>)>>,
      <<StrV(<<"y">>), StrV(<<"z">>), FloatV(FALSE, 2, 0)>> }
Heads ==
    { [header |-> <<StrV(<<"a">>), StrV(<<"b">>)>>, remark |-> <<"r">>],
      [header |-> <<>>, remark |-> <<>>] }
Seps == { <<>>, <<TAB>> }
ColSets == { <<>>, <<0, 2>>, <<1>>, <<-1, 0>> }
KeySets == { <<>>, <<StrV(<<"k">>)>> }
FillValue == FloatV(FALSE, 0, 0)

RECURSIVE Tables(_, _)
\* the data of at most n rows of the set
Tables(rowset, n) ==
    IF n = 0 THEN {<<>>}
    ELSE LET shorter == Tables(rowset, n - 1)
         IN  shorter \cup {<<r>> \o d : r \in rowset, d \in shorter}

NoSave == [done |-> FALSE, header |-> <<>>, data |-> <<>>, filename |-> <<>>,
           remark |-> <<>>, append |-> FALSE, before |-> EmptyDict]
NoRead == [done |-> FALSE, filename |-> <<>>, sep |-> <<>>, cols |-> <<>>,
           keys |-> <<>>]
NoTable == [raised |-> FALSE, none |-> FALSE, val |-> EmptyDict]

TablesIdle == fs = EmptyDict /\ tsave = NoSave /\ tread = NoRead /\ tout = NoTable

\* the files at the start: none, or one table under InitialName
TableFiles ==
    \/ fs = EmptyDict
    \/ \E t \in TableTexts : fs = (InitialName :> t)

SaveDataCall ==
    /\ ~tsave.done /\ ~tread.done
    /\ \E h \in Heads, d \in Tables(RowSet, MaxRows), f \in SaveNames, a \in BOOLEAN :
          /\ fs' = SaveData(fs, h.header, d, f, h.remark, a)
          /\ tsave' = [done |-> TRUE, header |-> h.header, data |-> d,
                       filename |-> f, remark |-> h.remark, append |-> a,
                       before |-> fs]
    /\ UNCHANGED <<tread, tout>>

ReadTableCall ==
    /\ ~tread.done
    /\ \E f \in ReadNames, s \in Seps, c \in ColSets, k \in KeySets :
          /\ tout' = ReadTable(f \in DOMAIN fs,
                               IF f \in DOMAIN fs THEN fs[f] ELSE <<>>,
                               s, c, k, FillValue)
          /\ tread' = [done |-> TRUE, filename |-> f, sep |-> s, cols |-> c,
                       keys |-> k]
    /\ UNCHANGED <<fs, tsave>>

\* ======================================================== specifications
repVars == <<rpc, rep, last, nops>>
confVars == <<cin, cout>>
tabVars == <<fs, tsave, tread, tout>>

\* the Report: its construction, then write and close calls in any order
InitReport == ReportIdle /\ cin = ConfOff /\ cout = ConfIdle /\ TablesIdle
NextReport ==
    \/ Construct /\ UNCHANGED <<confVars, tabVars>>
    \/ Write /\ UNCHANGED <<confVars, tabVars>>
    \/ Close /\ UNCHANGED <<confVars, tabVars>>
SpecReport == InitReport /\ [][NextReport]_vars

\* one ReadConf call on every file and every argument of the input sets
InitConf == ReportIdle /\ ConfInputs /\ cout = ConfIdle /\ TablesIdle
NextConf == ReadConfCall /\ UNCHANGED <<repVars, tabVars>>
SpecConf == InitConf /\ [][NextConf]_vars
\* one SaveData call at most, then one ReadTable call, on the initial files
InitTable ==
    /\ ReportIdle /\ cin = ConfOff /\ cout = ConfIdle
    /\ TableFiles /\ tsave = NoSave /\ tread = NoRead /\ tout = NoTable
NextTable ==
    \/ SaveDataCall /\ UNCHANGED <<repVars, confVars>>
    \/ ReadTableCall /\ UNCHANGED <<repVars, confVars>>
SpecTable == InitTable /\ [][NextTable]_vars

\* ------------------------------------------------------- Report: claims
\* the timestamped header line as it stands in the file
HeaderLine(r) == <<SP>> \o TimeTxt \o <<SP>> \o r.header \o <<NL>>

\* the line a write call puts in the file for its arguments
LineText(args, timed) ==
    IF timed
    THEN <<SP>> \o TimeTxt \o (IF Len(args) = 0 THEN <<>> ELSE <<SP>> \o Join(args, <<SP>>))
    ELSE Join(args, <<SP>>)

\* C1: with a non-empty header, a write made while the handle is closed
\* reopens the file and appends the timestamped header line, the two blank
\* lines of the open sequence and then the written line, in this order; the
\* Report is open afterwards and the file's earlier content is kept.
C1_WriteReopens ==
    [][ ( /\ rpc = "live" /\ rep.fp = "closed" /\ Len(rep.header) > 0
          /\ nops' = nops + 1 /\ last'[1] = "write" )
        => ( /\ rep'.fp = "open"
             /\ ~rep'.raised
             /\ rep'.file \o rep'.buf =
                    rep.file \o HeaderLine(rep) \o <<NL, NL>>
                    \o LineText(last'[2], rep.add_time \/ last'[3]) \o <<NL>> )
      ]_vars

\* a write has reopened the Report: the file holds the header twice
C1_Witness ==
    /\ rpc = "live" /\ last[1] = "write" /\ rep.fp = "open"
    /\ Count(rep.file, "H") = 2

\* C2: when a write call returns, all text handed to the handle since the
\* construction is in the file and the buffer is empty.
C2_WriteFlushed ==
    (rpc = "live" /\ last[1] = "write" /\ ~rep.raised)
        => (rep.buf = <<>> /\ rep.file = rep.prior \o rep.handed)

\* a write made after an open that left its blank lines in the buffer
C2_Witness ==
    /\ rpc = "live" /\ last[1] = "write" /\ rep.header = <<>>
    /\ rep.buf = <<>> /\ Len(rep.handed) > 2

\* C3: constructing a Report with a pathname that is no existing directory
\* warns, puts the report file in the current directory, and ends open with
\* the header line written, without failing.
C3_FallsBack ==
    (rpc # "new" /\ ~IsDir(rep.pathname))
        => ( /\ rep.warned
             /\ rpc = "live"
             /\ rep.dir = "cwd"
             /\ (last[1] = "init" =>
                    /\ rep.fp = "open"
                    /\ (Len(rep.header) > 0 =>
                            rep.file = rep.prior \o HeaderLine(rep))) )

\* ----------------------------------------------------- ReadConf: claims
\* a finished call with an empty default, simplify off and verbose off, on
\* a file that exists
PlainConfCall ==
    /\ cout.done /\ cin.exists /\ DOMAIN cin.default = {}
    /\ ~cin.simplify /\ ~cin.verbose

\* the key a line defines (the empty text: none) and the value it gives it
LineKey(line) ==
    LET i == ConfText(line) IN IF Has(i, "=") THEN ConfKey(i) ELSE i
LineValue(line) ==
    LET i == ConfText(line)
    IN  IF Has(i, "=") THEN Coerce(ConfValText(i)) ELSE IntV(1)

RECURSIVE ValuesOf(_, _)
\* the values of the lines that define key k, in the order of the lines
ValuesOf(lines, k) ==
    IF Len(lines) = 0 THEN <<>>
    ELSE (IF LineKey(lines[1]) = k THEN <<LineValue(lines[1])>> ELSE <<>>)
         \o ValuesOf(Tail(lines), k)

\* C4: no key of the result is the empty text, and each key's values are
\* those of the lines that define it, one per line, in file order.
C4_KeysAccumulate ==
    PlainConfCall =>
        /\ ~cout.raised
        /\ <<>> \notin DOMAIN cout.val
        /\ \A k \in DOMAIN cout.val :
              cout.val[k] = ListV(ValuesOf(ReadLines(cin.text), k))

\* C5: with the file missing the call does not raise, whatever the default
\* and the simplify and strict flags; the keys are the default's, and
\* before the simplify collapse a non-list default is wrapped in a list and
\* a list default is kept.
C5_MissingFile ==
    (cout.done /\ ~cin.exists /\ ~cin.verbose) =>
        /\ ~cout.raised
        /\ DOMAIN cout.val = DOMAIN cin.default
        /\ ~cin.simplify =>
              \A k \in DOMAIN cin.default :
                 cout.val[k] = IF cin.default[k].t = "list" THEN cin.default[k]
                               ELSE ListV(<<cin.default[k]>>)

\* C9: a line without '=' gives the key that is its text without the '#'
\* comment and without leading and trailing white space, with the value 1.
C9_BareKeyTrimmed ==
    PlainConfCall =>
        \A n \in 1..Len(ReadLines(cin.text)) :
           LET line == ReadLines(cin.text)[n]
               bare == Strip(Before(line, "#"))
           IN  (~Has(bare, "=") /\ Len(bare) > 0) =>
                  /\ bare \in DOMAIN cout.val
                  /\ \E j \in 1..Len(cout.val[bare].v) :
                        cout.val[bare].v[j] = IntV(1)

\* ------------------------------------------------------- tables: claims
RECURSIVE RowsLonger(_, _)
\* the rows with more than c values
RowsLonger(rows, c) ==
    IF Len(rows) = 0 THEN <<>>
    ELSE (IF Len(rows[1]) > c THEN <<rows[1]>> ELSE <<>>)
         \o RowsLonger(Tail(rows), c)

\* the text of the file a finished ReadTable call read
ReadText == IF tread.filename \in DOMAIN fs THEN fs[tread.filename] ELSE <<>>
ReadRows == TableRows(ReadLines(ReadText), tread.sep, FillValue)

\* C6: for a requested column index c >= 0 the call returns the values at
\* index c of the rows with more than c tokens, in row order; shorter rows
\* add nothing, and nothing is raised.
C6_RaggedColumns ==
    (tread.done /\ tread.filename \in DOMAIN fs /\ Len(tread.cols) > 0) =>
        /\ ~tout.raised /\ ~tout.none
        /\ LET ks == TableKeys(tread.cols, tread.keys)
           IN  \A j \in 1..Len(tread.cols) :
                  LET c == tread.cols[j]
                      long == RowsLonger(ReadRows, c)
                  IN  (c >= 0 /\ \A j2 \in (j + 1)..Len(tread.cols) : ks[j2] # ks[j]) =>
                         /\ ks[j] \in DOMAIN tout.val
                         /\ tout.val[ks[j]] =
                               ListV([n \in 1..Len(long) |-> long[n][c + 1]])

\* columns 0 and 2 were read from a file of three rows, one with column 2
C6_Witness ==
    /\ tread.done /\ tread.cols = <<0, 2>> /\ tread.keys = <<>>
    /\ ~tout.raised /\ ~tout.none
    /\ Len(ReadRows) = 3
    /\ Len(tout.val[IntV(0)].v) = 3
    /\ Len(tout.val[IntV(2)].v) = 1

\* C10: on every file that exists, a call that asks for no column returns
\* a mapping without raising: its keys are the column indices of the first
\* data row, and it is empty when the file has no data row.
C10_NoColumnsAsked ==
    (tread.done /\ tread.filename \in DOMAIN fs /\ Len(tread.cols) = 0) =>
        /\ ~tout.raised /\ ~tout.none
        /\ tread.keys = <<>> =>
              DOMAIN tout.val =
                 IF Len(ReadRows) = 0 THEN {}
                 ELSE {IntV(j - 1) : j \in 1..Len(ReadRows[1])}

\* a table was written anew by SaveData and then read back from the file
\* it made, with the default separator and all columns
ReadBack ==
    /\ tsave.done /\ ~tsave.append
    /\ tread.done /\ tread.filename = TableName(tsave.filename)
    /\ tread.sep = <<>> /\ tread.cols = <<>> /\ tread.keys = <<>>

\* the values read back have, row by row and column by column, the string
\* forms of the values written
SameStrings ==
    /\ ~tout.raised /\ ~tout.none
    /\ \A r \in 1..Len(tsave.data) : \A c \in 1..Len(tsave.data[r]) :
          /\ IntV(c - 1) \in DOMAIN tout.val
          /\ Len(tout.val[IntV(c - 1)].v) >= r
          /\ Str(tout.val[IntV(c - 1)].v[r]) = Str(tsave.data[r][c])
    /\ \A k \in DOMAIN tout.val :
          Len(tout.val[k].v) =
             Cardinality({r \in 1..Len(tsave.data) : Len(tsave.data[r]) > k.n})

\* C7 as stated: the round trip gives back the string forms of the rows of
\* every list of data rows (shown on the lists that have a row; reading
\* back a table without rows is the case of C10).
C7_RoundTrip == (ReadBack /\ Len(tsave.data) > 0) => SameStrings

\* a value that a token of the file stands for: a float, or a value whose
\* string form is one token that float() does not accept
TokenValue(x) ==
    \/ x.t = "float"
    \/ LET sx == Str(x)
       IN  /\ Len(sx) > 0
           /\ \A k \in 1..Len(sx) : ~IsSpace(sx[k]) /\ sx[k] # "#"
           /\ ~IsFloatText(sx)

\* data of one or more rows, all of one length that is not 0, of such
\* values, under a header and a remark without line break
Rectangular ==
    /\ Len(tsave.data) > 0
    /\ Len(tsave.data[1]) > 0
    /\ \A r \in 1..Len(tsave.data) :
          /\ Len(tsave.data[r]) = Len(tsave.data[1])
          /\ \A c \in 1..Len(tsave.data[r]) : TokenValue(tsave.data[r][c])
    /\ ~Has(tsave.remark, NL)
    /\ \A c \in 1..Len(tsave.header) : ~Has(Str(tsave.header[c]), NL)

\* C7 amended: the round trip gives back the string forms of the rows
\* when the data has at least one row, the rows have one common length
\* that is not 0, and each value is a float or has a string form that is
\* not empty, holds no white space and no '#', and is no number.
C7_RoundTripOfTokens == (ReadBack /\ Rectangular) => SameStrings

\* two rows of such values were written under a header and read back
C7_Witness ==
    /\ ReadBack /\ Rectangular
    /\ Len(tsave.data) = 2 /\ Len(tsave.header) > 0
    /\ Len(tout.val[IntV(1)].v) = 2

\* the name SaveData writes to, from the stem of the name it is given
ExpectedName(filename) ==
    LET stem == SplitExtRoot(filename)
    IN  IF Contains(stem, <<"t", "a", "b", "l", "e">>)
        THEN stem \o <<".", "t", "x", "t">>
        ELSE stem \o <<"-", "t", "a", "b", "l", "e", ".", "t", "x", "t">>

RECURSIVE ExpectedRows(_)
ExpectedRows(data) ==
    IF Len(data) = 0 THEN <<>>
    ELSE Join([k \in 1..Len(data[1]) |-> Str(data[1][k])], <<TAB>>) \o <<NL>>
         \o ExpectedRows(Tail(data))

\* the '#' remark line, the '#' line, the '#' header line, the rows
ExpectedBlock ==
    <<"#">> \o tsave.remark \o <<NL>>
    \o <<"#", NL>>
    \o <<"#">> \o Join([k \in 1..Len(tsave.header) |-> Str(tsave.header[k])], <<TAB>>) \o <<NL>>
    \o ExpectedRows(tsave.data)

\* C8: SaveData writes one block (remark line, '#' line, header line, one
\* line per row) to the normalized name; without append the file holds
\* just the block, with append its earlier content and then the block; no
\* other file changes.
C8_SaveDataBlock ==
    tsave.done =>
        LET fn == ExpectedName(tsave.filename)
            old == IF fn \in DOMAIN tsave.before THEN tsave.before[fn] ELSE <<>>
        IN  /\ DOMAIN fs = (DOMAIN tsave.before) \cup {fn}
            /\ fs[fn] = (IF tsave.append THEN old ELSE <<>>) \o ExpectedBlock
            /\ \A f \in DOMAIN tsave.before : f # fn => fs[f] = tsave.before[f]

\* rows were appended to a file that held a table, under a name whose stem
\* has no 'table' in it
C8_Witness ==
    /\ tsave.done /\ tsave.append /\ Len(tsave.data) = 2
    /\ tsave.filename = <<"o", "u", "t", ".", "t", "x", "t">>
    /\ InitialName \in DOMAIN tsave.before
    /\ Len(tsave.before[InitialName]) > 0
    /\ Len(fs[InitialName]) > Len(tsave.before[InitialName])

====
